---- MODULE Spec2Model ----
(***************************************************************************)
(* Model of the members routes of parliament-watch-api                     *)
(* (src/src/routes/members.js): the two enrichment pipelines               *)
(* GET /:memberName/real-votes and GET /:memberName/ballots, the           *)
(* in-process cache they probe and fill, and the upstream they call.       *)
(*                                                                         *)
(* A URL string is kept as the sequence of pieces that split('/') returns  *)
(* (so "/votes/44-1/928/" is <<"", "votes", "44-1", "928", "">>).          *)
(* A JS value whose type varies is kept as a tagged record: [str |-> s],   *)
(* [null |-> TRUE], [undefined |-> TRUE], or the object itself.            *)
(* An absent object property is a field missing from the record.           *)
(***************************************************************************)
EXTENDS Integers, Sequences, FiniteSets, TLC

VARIABLES
    cache,      \* the in-process cache: key -> [payload, expiresAt]
    now,        \* the clock, in milliseconds
    req,        \* per request slot: the handler's position and locals
    upstream,   \* shape of the ballot collection the upstream holds
    failLeft,   \* per-vote fetch failures the environment may still inject
    reqLeft,    \* requests the environment may still send
    hist,       \* per route and member: how the last finished request ended
    db,         \* the durable store: the Member records, in insertion order
    mreq,       \* per request slot: position and locals of a store-backed handler
    baseUrl,    \* whether a global OPENPARLIAMENT_BASE_URL exists at run time
    version,    \* revision of the data the upstream serves
    reads,      \* per store key: the lookups answered since the last save
    ttlCall,    \* the last call of getCacheExpiration: argument and result
    maxInFlight \* how many requests the environment keeps in flight at once

storeVars == <<db, mreq, baseUrl, version, reads, ttlCall, maxInFlight>>

vars == <<cache, now, req, upstream, failLeft, reqLeft, hist, storeVars>>

----------------------------------------------------------------------------
(* Bounds of the exploration *)

MaxBallots == 11        \* longest ballot collection the upstream returns
MaxPattern == 1         \* ballot collections come in patterns 0..MaxPattern
MaxRequests == 2        \* requests per behaviour of the cache specification
MaxFailures == 1        \* injected per-vote failures in the cache specification
MaxTicks == 2           \* clock advances per behaviour
MaxShortList == 2       \* longest ballot collection in the cache specification
MaxPathLen == 5         \* longest path, in pieces, given to the TTL policy
MaxStoreRequests == 2   \* requests per behaviour of the store specification
MaxDupRequests == 4     \* requests per behaviour with two in flight
MaxStoreTicks == 2      \* clock advances per behaviour of the store specification
MaxVersion == 1         \* content versions 0..MaxVersion of the upstream

(* Program constants *)

MaxEnrich == 10         \* Math.min(10, ...) of both pipelines
CACHE_MS == 3600000     \* cache.set(cacheKey, responseData, 3600000)
TickMs == CACHE_MS \div 2   \* the clock advances by half a cache lifetime

Slots == {1, 2}
Members == {"alice", "bob"}
Routes == {"real-votes", "ballots"}

Min(a, b) == IF a < b THEN a ELSE b

----------------------------------------------------------------------------
(* JS values *)

JStr(s) == [str |-> s]
JNull == [null |-> TRUE]
JUndef == [undefined |-> TRUE]
EmptyObj == [x \in {} |-> x]

Has(obj, f) == f \in DOMAIN obj

----------------------------------------------------------------------------
(* The upstream: ballot collections and vote details *)

KindCycle == <<"short", "std", "empty", "long", "dbl">>

\* pattern 0 is a collection of well-formed references only
BallotKind(p, i) ==
    IF p = 0 THEN "std" ELSE KindCycle[((i + p - 1) % Len(KindCycle)) + 1]

VoteNumber(i) == ToString(920 + i)

VoteUrl(kind, num) ==
    CASE kind = "std"   -> <<"", "votes", "44-1", num, "">>
      [] kind = "long"  -> <<"", "api", "votes", "44-1", num, "">>
      [] kind = "dbl"   -> <<"", "votes", "", "44-1", num>>
      [] kind = "short" -> <<"", "votes", num, "">>
      [] OTHER          -> <<"">>

Choices == <<"Yes", "No", "Paired">>

\* the ballot at 0-based position i of member m's collection
UpstreamBallot(m, p, i) ==
    [ vote_url       |-> VoteUrl(BallotKind(p, i), VoteNumber(i)),
      ballot         |-> Choices[(i % 3) + 1],
      politician_url |-> "/politicians/" \o m \o "/" ]

UpstreamBallots(m, p, n) == [k \in 1..n |-> UpstreamBallot(m, p, k - 1)]

UpstreamPagination(n) == [count |-> n, limit |-> 20, offset |-> 0]

\* the vote detail the upstream returns for a vote number when it answers
VoteDetailFor(number) ==
    LET idx == CHOOSE i \in 0..(MaxBallots + 1) : VoteNumber(i) = number
    IN CASE idx % 3 = 0 ->
              [ number      |-> number,
                bill        |-> [number |-> "C-" \o number],
                description |-> JStr("Act " \o number),
                date        |-> "2024-11-20",
                result      |-> "Passed" ]
         [] idx % 3 = 1 ->
              [ number      |-> number,
                description |-> [en |-> "Motion " \o number, fr |-> "Motion"],
                date        |-> "2024-11-15",
                passed      |-> (idx % 2 = 0) ]
         [] OTHER ->
              [ number      |-> number,
                description |-> JNull,
                date        |-> "2024-10-28",
                result      |-> "Negatived" ]

----------------------------------------------------------------------------
(* The in-process cache (services/cache): get/set with lazy expiry *)

CacheGet(c, key, t) ==
    IF key \in DOMAIN c /\ c[key].expiresAt > t THEN c[key].payload ELSE JUndef

CacheSet(c, key, payload, ttl, t) ==
    (key :> [payload |-> payload, expiresAt |-> t + ttl]) @@ c

Truthy(v) == v # JUndef /\ v # JNull

----------------------------------------------------------------------------
(* Pure pieces of the two handlers *)

RealVotesKey(memberName) == "member_real_votes_" \o memberName
BallotsKey(memberName) == "member_ballots_" \o memberName

CacheKey(route, memberName) ==
    IF route = "real-votes" THEN RealVotesKey(memberName) ELSE BallotsKey(memberName)

\* slip: the empty pieces are not filtered out
VoteUrlParts_NoFilter(vote_url) == vote_url

\* ballot.vote_url.split('/').filter(Boolean)
VoteUrlParts(vote_url) == SelectSeq(vote_url, LAMBDA seg : seg # "")

\* voteUrlParts[voteUrlParts.length - 3] and voteUrlParts[voteUrlParts.length - 1]
VoteSession(parts) == parts[Len(parts) - 2]
VoteNumberOf(parts) == parts[Len(parts)]

CanParse(parts) == Len(parts) >= 3

\* the string a split URL stands for
RECURSIVE JoinFrom(_, _)
JoinFrom(pieces, k) ==
    IF k > Len(pieces) THEN ""
    ELSE IF k = Len(pieces) THEN pieces[k]
    ELSE pieces[k] \o "/" \o JoinFrom(pieces, k + 1)

UrlString(pieces) == JoinFrom(pieces, 1)

\* slip: the fan-out is not capped
MaxBallotsToEnrich_NoCap(objects) == Len(objects)

MaxBallotsToEnrich(objects) == Min(MaxEnrich, Len(objects))

\* slip: an empty array is not treated as "no ballots"
NoBallots_AbsentOnly(ballotsData) == ~Has(ballotsData, "objects")

\* !ballotsData.objects || ballotsData.objects.length === 0
NoBallots(ballotsData) ==
    ~Has(ballotsData, "objects") \/ Len(ballotsData.objects) = 0

VoteFetchError == "timeout of 5000ms exceeded"
ListFetchError == "Request failed with status code 503"
ListTimeoutError == "timeout of 8000ms exceeded"
NullDescriptionError == "Cannot read properties of null (reading 'en')"

(* real-votes: the item pushed in each branch of the loop body *)

\* typeof voteData.description === 'object' ? voteData.description.en : voteData.description
MergeThrows(voteData) ==
    Has(voteData, "description") /\ voteData.description = JNull

MergedDescription(voteData) ==
    IF ~Has(voteData, "description") THEN JUndef
    ELSE IF Has(voteData.description, "str") THEN voteData.description
    ELSE IF Has(voteData.description, "en") THEN JStr(voteData.description.en)
    ELSE JUndef

\* ballot.ballot === 'Yes' ? 'Yea' : ballot.ballot === 'No' ? 'Nay' : ballot.ballot
TranslateChoice(ballot) ==
    IF ballot = "Yes" THEN "Yea" ELSE IF ballot = "No" THEN "Nay" ELSE ballot

\* voteData.result || (voteData.passed ? 'Passed' : 'Failed')
MergedResult(voteData) ==
    IF Has(voteData, "result") /\ voteData.result # "" THEN voteData.result
    ELSE IF Has(voteData, "passed") /\ voteData.passed THEN "Passed"
    ELSE "Failed"

RealVotesErrorItem(ballot, message) ==
    [ id          |-> UrlString(ballot.vote_url),
      vote_url    |-> ballot.vote_url,
      bill        |-> "Unknown",
      description |-> "Error fetching vote details",
      date        |-> "Unknown date",
      vote        |-> ballot.ballot,
      result      |-> "Unknown",
      raw_ballot  |-> ballot,
      error       |-> message ]

RealVotesInvalidItem(ballot) ==
    [ id          |-> UrlString(ballot.vote_url),
      vote_url    |-> ballot.vote_url,
      bill        |-> "Unknown",
      description |-> "Vote details unavailable",
      date        |-> "Unknown date",
      vote        |-> ballot.ballot,
      result      |-> "Unknown",
      raw_ballot  |-> ballot ]

RealVotesMergedItem(ballot, voteSession, voteNumber, voteData) ==
    IF MergeThrows(voteData)
    THEN RealVotesErrorItem(ballot, NullDescriptionError)
    ELSE [ id          |-> voteSession \o "-" \o voteNumber,
           vote_url    |-> ballot.vote_url,
           bill        |-> IF Has(voteData, "bill")
                           THEN "Bill " \o voteData.bill.number ELSE "Motion",
           bill_number |-> IF Has(voteData, "bill")
                           THEN JStr(voteData.bill.number) ELSE JNull,
           description |-> MergedDescription(voteData),
           date        |-> voteData.date,
           vote        |-> TranslateChoice(ballot.ballot),
           result      |-> MergedResult(voteData),
           raw_ballot  |-> ballot,
           raw_vote    |-> voteData ]

\* slip: the date sentinel is left out
RealVotesRemainingItem_NoDate(ballot) ==
    [ id          |-> UrlString(ballot.vote_url),
      vote_url    |-> ballot.vote_url,
      bill        |-> "Motion",
      description |-> "Additional vote (details not loaded)",
      vote        |-> ballot.ballot,
      result      |-> "Unknown",
      raw_ballot  |-> ballot ]

RealVotesRemainingItem(ballot) ==
    [ id          |-> UrlString(ballot.vote_url),
      vote_url    |-> ballot.vote_url,
      bill        |-> "Motion",
      description |-> "Additional vote (details not loaded)",
      date        |-> "Unknown date",
      vote        |-> ballot.ballot,
      result      |-> "Unknown",
      raw_ballot  |-> ballot ]

\* slip: the second loop starts one ballot early
RealVotesRemaining_OffByOne(objects, maxBallotsToEnrich) ==
    [k \in 1..(Len(objects) - maxBallotsToEnrich) |->
        [ id          |-> UrlString(objects[maxBallotsToEnrich + k - 1].vote_url),
          vote_url    |-> objects[maxBallotsToEnrich + k - 1].vote_url,
          bill        |-> "Motion",
          description |-> "Additional vote (details not loaded)",
          date        |-> "Unknown date",
          vote        |-> objects[maxBallotsToEnrich + k - 1].ballot,
          result      |-> "Unknown",
          raw_ballot  |-> objects[maxBallotsToEnrich + k - 1] ]]

\* the second loop: objects[maxBallotsToEnrich .. length-1], in order
RealVotesRemaining(objects, maxBallotsToEnrich) ==
    [k \in 1..(Len(objects) - maxBallotsToEnrich) |->
        RealVotesRemainingItem(objects[maxBallotsToEnrich + k])]

\* slip: enriched_count counts every item of the result
RealVotesResponseData_CountsItems(memberName, ballotsData, enrichedVotes, maxBallotsToEnrich) ==
    [ objects    |-> enrichedVotes,
      pagination |-> IF Has(ballotsData, "pagination")
                     THEN ballotsData.pagination ELSE JUndef,
      meta       |-> [ member         |-> memberName,
                       enriched_count |-> Len(enrichedVotes),
                       total_count    |-> Len(ballotsData.objects) ] ]

RealVotesResponseData(memberName, ballotsData, enrichedVotes, maxBallotsToEnrich) ==
    [ objects    |-> enrichedVotes,
      pagination |-> IF Has(ballotsData, "pagination")
                     THEN ballotsData.pagination ELSE JUndef,
      meta       |-> [ member         |-> memberName,
                       enriched_count |-> maxBallotsToEnrich,
                       total_count    |-> Len(ballotsData.objects) ] ]

(* ballots: the item pushed in each branch of the loop body *)

BallotsMergedItem(ballot, voteData) ==
    \* { ...ballot, vote_details, date, description, result, bill_number }:
    \* the fields written after the spread win
    [ vote_details |-> voteData,
      date         |-> voteData.date,
      description  |-> IF Has(voteData, "description")
                       THEN voteData.description ELSE JUndef,
      result       |-> IF Has(voteData, "result")
                       THEN JStr(voteData.result) ELSE JUndef,
      bill_number  |-> IF Has(voteData, "bill")
                       THEN JStr(voteData.bill.number) ELSE JNull ] @@ ballot

BallotsRemaining(objects, maxBallotsToEnrich) ==
    [k \in 1..(Len(objects) - maxBallotsToEnrich) |-> objects[maxBallotsToEnrich + k]]

\* { ...ballotsData, objects: enrichedBallots }
BallotsResponseData(ballotsData, enrichedBallots) ==
    [f \in DOMAIN ballotsData |->
        IF f = "objects" THEN enrichedBallots ELSE ballotsData[f]]

----------------------------------------------------------------------------
(* services/proxy.js: the TTL policy *)

\* CACHE_TTL, in milliseconds
CACHE_TTL_LIST == 5 * 60 * 1000
CACHE_TTL_DETAIL == 30 * 60 * 1000
CACHE_TTL_MEMBER_VOTES == 10 * 60 * 1000

\* endpoint.includes('/seg/'): a piece equal to seg with a slash on both sides
Includes(endpoint, seg) ==
    \E k \in 2..(Len(endpoint) - 1) : endpoint[k] = seg

\* endpoint.endsWith('/seg/')
EndsWith(endpoint, seg) ==
    /\ Len(endpoint) >= 3
    /\ endpoint[Len(endpoint)] = ""
    /\ endpoint[Len(endpoint) - 1] = seg

\* slip: the member-votes branch is missing
TtlFor_NoMemberVotes(endpoint) ==
    IF Includes(endpoint, "votes") /\ ~EndsWith(endpoint, "votes")
    THEN CACHE_TTL_DETAIL
    ELSE IF Includes(endpoint, "bills") /\ ~EndsWith(endpoint, "bills")
    THEN CACHE_TTL_DETAIL
    ELSE IF Includes(endpoint, "politicians") /\ ~EndsWith(endpoint, "politicians")
    THEN CACHE_TTL_DETAIL
    ELSE CACHE_TTL_LIST

\* the if / else-if chain of getCacheExpiration, first match wins
TtlFor(endpoint) ==
    IF Includes(endpoint, "votes") /\ ~EndsWith(endpoint, "votes")
    THEN CACHE_TTL_DETAIL
    ELSE IF Includes(endpoint, "bills") /\ ~EndsWith(endpoint, "bills")
    THEN CACHE_TTL_DETAIL
    ELSE IF Includes(endpoint, "politicians") /\ Includes(endpoint, "votes")
    THEN CACHE_TTL_MEMBER_VOTES
    ELSE IF Includes(endpoint, "politicians") /\ ~EndsWith(endpoint, "politicians")
    THEN CACHE_TTL_DETAIL
    ELSE CACHE_TTL_LIST

\* new Date(Date.now() + ttl)
getCacheExpiration(endpoint, t) == t + TtlFor(endpoint)

\* the paths the TTL policy is tried on: up to MaxPathLen pieces
PathPieces == {"", "politicians", "votes", "bills", "alice", "928"}

RECURSIVE PathsOfLen(_)
PathsOfLen(n) ==
    IF n = 0 THEN {<<>>}
    ELSE {Append(p, x) : p \in PathsOfLen(n - 1), x \in PathPieces}

TtlPaths == UNION {PathsOfLen(n) : n \in 1..MaxPathLen}

\* ttlCall.endpoint is the argument the call will get
NoTtlCall == [endpoint |-> <<>>, called |-> FALSE, at |-> 0, expires |-> 0]

\* getCacheExpiration is called on the drawn path at the current time
TtlCall ==
    /\ ttlCall.endpoint # <<>>
    /\ ~ttlCall.called
    /\ ttlCall' = [ endpoint |-> ttlCall.endpoint,
                    called   |-> TRUE,
                    at       |-> now,
                    expires  |-> getCacheExpiration(ttlCall.endpoint, now) ]
    /\ UNCHANGED <<cache, now, req, upstream, failLeft, reqLeft, hist,
                   db, mreq, baseUrl, version, reads, maxInFlight>>

----------------------------------------------------------------------------
(* The store-backed routes: keys, upstream payloads, the local search *)

StoreRoutes == {"list", "member", "votes"}

\* `/politicians/${memberName}/`
MemberUrl(m) == <<"", "politicians", m, "">>

\* `/politicians/${memberName}/votes/`
MemberVotesUrl(m) == <<"", "politicians", m, "votes", "">>

PoliticiansUrl == <<"", "politicians", "">>

\* the path each route hands to fetchFromAPI and to getCacheExpiration
StorePath(route, m) ==
    IF route = "list" THEN PoliticiansUrl
    ELSE IF route = "member" THEN MemberUrl(m)
    ELSE MemberVotesUrl(m)

\* `members-${province || 'all'}-${party || 'all'}-${limit}-${offset}` with no
\* province or party and the default limit and offset
MembersKey == "members-all-all-20-0"

\* `${memberVotesUrl}-${limit}-${offset}` with the default limit and offset
MemberVotesKey(m) == UrlString(MemberVotesUrl(m)) \o "-20-0"

StoreKey(route, m) ==
    IF route = "list" THEN MembersKey
    ELSE IF route = "member" THEN UrlString(MemberUrl(m))
    ELSE MemberVotesKey(m)

StoreKeys == {StoreKey(r, m) : r \in StoreRoutes, m \in Members}

\* text whose letters matter is a sequence of one-letter strings
Chars(cs) == [chars |-> cs]

\* the members page of the upstream at content version v
MembersPage(v) ==
    [ objects |-> << [ name |-> Chars(<<"A", "l">>),
                       constituency |-> Chars(<<"L", "a">>) ],
                     [ name |-> Chars(<<"B", "o">>),
                       constituency |-> JNull ],
                     [ name |-> Chars(<<"l", "b">>),
                       constituency |-> Chars(<<"A", "b">>) ] >>,
      version |-> v ]

\* what the upstream holds under a route's path at content version v
UpstreamData(route, m, v) ==
    IF route = "list" THEN MembersPage(v)
    ELSE IF route = "member"
    THEN [ url |-> UrlString(MemberUrl(m)), name |-> JStr(m),
           party |-> JStr("Independent"), version |-> v ]
    ELSE [ objects |-> << [ vote_url |-> VoteUrl("plain", VoteNumber(1)),
                            ballot |-> "Yes" ] >>,
           version |-> v ]

\* String.prototype.toLowerCase on the letters of the model
ToLowerChar(c) ==
    IF c = "A" THEN "a" ELSE IF c = "B" THEN "b" ELSE IF c = "L" THEN "l" ELSE c

ToLowerCase(cs) == [i \in 1..Len(cs) |-> ToLowerChar(cs[i])]

\* String.prototype.includes
IncludesChars(hay, needle) ==
    \E i \in 0..(Len(hay) - Len(needle)) :
        \A j \in 1..Len(needle) : hay[i + j] = needle[j]

\* !search: absent or the empty string
NoSearch(search) == search = JUndef \/ search = Chars(<<>>)

\* membersData.data.objects.filter(...) of the list route
SearchFilter(objects, search) ==
    LET searchLower == ToLowerCase(search.chars)
        keep(member) ==
            \/ IncludesChars(ToLowerCase(member.name.chars), searchLower)
            \/ /\ Truthy(member.constituency)
               /\ IncludesChars(ToLowerCase(member.constituency.chars), searchLower)
    IN SelectSeq(objects, keep)

\* the search texts requests carry
Searches == {JUndef, Chars(<<>>), Chars(<<"a">>), Chars(<<"L", "A">>)}

----------------------------------------------------------------------------
(* The durable store and the upstream fetch *)

\* Member.findOne(filter): the first record, in insertion order, with the
\* filter's url and an expiry after the filter's instant; null when none
FindOne(d, filter) ==
    LET hits == {i \in DOMAIN d : /\ d[i].url = filter.url
                                  /\ d[i].expires > filter.expiresGt}
    IN IF hits = {} THEN JNull
       ELSE d[CHOOSE i \in hits : \A j \in hits : i <= j]

\* record.save(): always one more record
Save(d, record) == Append(d, record)

\* slip: the expiry is not part of the filter
StoreFilter_NoExpiry(key, at) == [url |-> key, expiresGt |-> 0 - 1]

\* { url: cacheKey, expires: { $gt: new Date() } }
StoreFilter(key, at) == [url |-> key, expiresGt |-> at]

\* slip: every record gets the expiry of the politicians list
StoreRecord_ListTtl(route, m, key, apiData, t) ==
    [ url     |-> key,
      data    |-> apiData,
      expires |-> getCacheExpiration(PoliticiansUrl, t),
      created |-> t ]

\* new Member({ url, data: apiData, expires: getCacheExpiration(path) }); created
\* is the instant of construction, kept for the properties
StoreRecord(route, m, key, apiData, t) ==
    [ url     |-> key,
      data    |-> apiData,
      expires |-> getCacheExpiration(StorePath(route, m), t),
      created |-> t ]

\* what the upstream does with one request of fetchFromAPI
UpAnswers == {"ok", "status", "transport", "nonjson"}

\* fetchFromAPI: the template literal of the URL reads OPENPARLIAMENT_BASE_URL,
\* which proxy.js never declares; the read throws unless a global of that name
\* exists, and then nothing is sent
FetchOutcome(up) == IF baseUrl = "undefined" THEN "unsent" ELSE up

\* `Failed to fetch data from OpenParliament API: ${error.message}`
FetchErrorMessage(outcome) ==
    "Failed to fetch data from OpenParliament API: " \o
    ( IF outcome = "unsent" THEN "OPENPARLIAMENT_BASE_URL is not defined"
      ELSE IF outcome = "status"
      THEN "OpenParliament API responded with status 503"
      ELSE IF outcome = "transport" THEN "fetch failed"
      ELSE "Unexpected token < in JSON at position 0" )

FetchFailures == {"unsent", "status", "transport", "nonjson"}

\* the catch of the list and member routes, per failure of fetchFromAPI
FetchErrorBodies == [o \in FetchFailures |-> [error |-> FetchErrorMessage(o)]]

FindErrorMessage == "Operation members.findOne() buffering timed out"

SaveErrorMessage == "Operation members.insertOne() buffering timed out"

\* the body of the inner catch of the votes route (NODE_ENV not development:
\* error_details is undefined and left out of the JSON)
VotesApiErrorBody(m) ==
    [ objects    |-> <<>>,
      pagination |-> [ count |-> 0, next_url |-> JNull, previous_url |-> JNull,
                       limit |-> 20, offset |-> 0 ],
      message    |-> "No votes available for " \o m \o " or API error occurred" ]

\* the body of the outer catch of the votes route
VotesErrorBody ==
    [ objects    |-> <<>>,
      pagination |-> [ count |-> 0, next_url |-> JNull, previous_url |-> JNull ],
      message    |-> "Error retrieving votes data" ]

\* res.status(500).json({ error: error.message })
ErrorBody(message) == [error |-> message]

----------------------------------------------------------------------------
(* Request slots *)

NoCalls == [list |-> 0, votes |-> <<>>, sets |-> 0]

IdleReq ==
    [ pc                 |-> "idle",
      route              |-> "none",
      memberName         |-> "none",
      ballotsData        |-> EmptyObj,
      i                  |-> 0,
      maxBallotsToEnrich |-> 0,
      enriched           |-> <<>>,
      pending            |-> EmptyObj,
      listOutcome        |-> "none",
      outcomes           |-> <<>>,
      calls              |-> NoCalls,
      sent               |-> 0,
      response           |-> [status |-> 0] ]

\* a slot of the store-backed handlers (GET /, /:memberName, /:memberName/votes)
NoStoreCalls == [finds |-> 0, fetches |-> 0, saves |-> 0]

IdleM ==
    [ pc           |-> "idle",
      route        |-> "none",
      memberName   |-> "none",
      search       |-> JUndef,
      cacheKey     |-> "",
      lookupAt     |-> 0,
      findOutcome  |-> "none",
      sawStale     |-> FALSE,
      sawFresh     |-> FALSE,
      found        |-> JNull,
      upAnswer     |-> "none",
      fetchOutcome |-> "none",
      saving       |-> JNull,
      saveOutcome  |-> "none",
      calls        |-> NoStoreCalls,
      sent         |-> 0,
      response     |-> [status |-> 0] ]

\* hist[<<route, member>>]: status of the last response, the body the last
\* pipeline run returned and the time it was stored
NoHist == [status |-> 0, computed |-> JUndef, at |-> 0]

\* res.status(status).json(body): the handler returns
Respond(r, status, body) ==
    [r EXCEPT !.pc = "done", !.sent = @ + 1,
              !.response = [status |-> status, body |-> body]]

HistServed(h, route, m, status) ==
    [h EXCEPT ![<<route, m>>].status = status]

HistComputed(h, route, m, body, t) ==
    [h EXCEPT ![<<route, m>>] = [status |-> 200, computed |-> body, at |-> t]]

\* what the upstream answers to the ballot-list request
ListBody(m, outcome) ==
    IF outcome = "ok"
    THEN [ objects    |-> UpstreamBallots(m, upstream.pattern, upstream.n),
           pagination |-> UpstreamPagination(upstream.n) ]
    ELSE IF outcome = "nonjson"
    THEN JStr("<html>Service temporarily unavailable</html>")
    ELSE [ detail |-> "Not found" ]

\* axios.get rejects on a transport failure or timeout and on a non-2xx status;
\* a 2xx body that is not JSON is handed over as the raw string
ListErrors == {"timeout", "status"}

ListOutcomes == {"ok", "absent", "nonjson"} \cup ListErrors

ListErrorMessage(outcome) ==
    IF outcome = "timeout" THEN ListTimeoutError ELSE ListFetchError

\* the environment sends a request: it takes the lowest free slot, and only
\* while fewer than maxInFlight requests are being handled
InFlight == {s \in Slots : req[s].pc # "idle" \/ mreq[s].pc # "idle"}

CanArrive(s) ==
    /\ reqLeft > 0
    /\ s \notin InFlight
    /\ \A t \in Slots : t < s => t \in InFlight
    /\ Cardinality(InFlight) < maxInFlight

----------------------------------------------------------------------------
(* GET /:memberName/real-votes *)

\* slip: the cached value is not used
RealVotesStart_NoProbe(s, m) ==
    /\ CanArrive(s)
    /\ reqLeft' = reqLeft - 1
    /\ req' = [req EXCEPT ![s] =
                  [@ EXCEPT !.route = "real-votes", !.memberName = m,
                            !.pc = "await_list", !.calls.list = @ + 1]]
    /\ UNCHANGED <<storeVars, cache, now, upstream, failLeft, hist>>

\* lines 116-143: probe the cache; on a hit respond, else issue the list fetch
RealVotesStart(s, m) ==
    /\ CanArrive(s)
    /\ reqLeft' = reqLeft - 1
    /\ LET cacheKey == RealVotesKey(m)
           cachedData == CacheGet(cache, cacheKey, now)
           r == [req[s] EXCEPT !.route = "real-votes", !.memberName = m]
       IN IF Truthy(cachedData)
          THEN /\ req' = [req EXCEPT ![s] = Respond(r, 200, cachedData)]
               /\ hist' = HistServed(hist, "real-votes", m, 200)
          ELSE /\ req' = [req EXCEPT ![s] =
                             [r EXCEPT !.pc = "await_list", !.calls.list = @ + 1]]
               /\ hist' = hist
    /\ UNCHANGED <<storeVars, cache, now, upstream, failLeft>>

\* slip: the "no voting history" answer is cached like a result
RealVotesListReturn_Caches404(s) ==
    /\ req[s].pc = "await_list"
    /\ req[s].route = "real-votes"
    /\ \E outcome \in ListOutcomes :
         LET r == [req[s] EXCEPT !.listOutcome = outcome]
             m == r.memberName
             ballotsData == ListBody(m, outcome)
             notFound == [ error |-> "No voting history found for this member" ]
         IN IF outcome \in ListErrors
            THEN /\ req' = [req EXCEPT ![s] =
                               Respond(r, 500, [ error   |-> "Failed to fetch ballot data",
                                                 details |-> ListErrorMessage(outcome) ])]
                 /\ hist' = HistServed(hist, "real-votes", m, 500)
                 /\ cache' = cache
            ELSE IF NoBallots(ballotsData)
            THEN /\ req' = [req EXCEPT ![s] = Respond(r, 404, notFound)]
                 /\ hist' = HistServed(hist, "real-votes", m, 404)
                 /\ cache' = CacheSet(cache, RealVotesKey(m), notFound, CACHE_MS, now)
            ELSE /\ req' = [req EXCEPT ![s] =
                               [r EXCEPT !.pc = "loop",
                                         !.ballotsData = ballotsData,
                                         !.i = 0,
                                         !.enriched = <<>>,
                                         !.maxBallotsToEnrich =
                                             MaxBallotsToEnrich(ballotsData.objects)]]
                 /\ hist' = hist
                 /\ cache' = cache
    /\ UNCHANGED <<storeVars, now, upstream, failLeft, reqLeft>>

\* lines 144-163: the list fetch returns or throws; the empty check
RealVotesListReturn(s) ==
    /\ req[s].pc = "await_list"
    /\ req[s].route = "real-votes"
    /\ \E outcome \in ListOutcomes :
         LET r == [req[s] EXCEPT !.listOutcome = outcome]
             m == r.memberName
             ballotsData == ListBody(m, outcome)
         IN IF outcome \in ListErrors
            THEN /\ req' = [req EXCEPT ![s] =
                               Respond(r, 500, [ error   |-> "Failed to fetch ballot data",
                                                 details |-> ListErrorMessage(outcome) ])]
                 /\ hist' = HistServed(hist, "real-votes", m, 500)
            ELSE IF NoBallots(ballotsData)
            THEN /\ req' = [req EXCEPT ![s] =
                               Respond(r, 404, [ error |-> "No voting history found for this member" ])]
                 /\ hist' = HistServed(hist, "real-votes", m, 404)
            ELSE /\ req' = [req EXCEPT ![s] =
                               [r EXCEPT !.pc = "loop",
                                         !.ballotsData = ballotsData,
                                         !.i = 0,
                                         !.enriched = <<>>,
                                         !.maxBallotsToEnrich =
                                             MaxBallotsToEnrich(ballotsData.objects)]]
                 /\ hist' = hist
    /\ UNCHANGED <<storeVars, cache, now, upstream, failLeft, reqLeft>>

\* lines 165-187 and 206-219: one pass of the loop body up to its await
RealVotesLoop(s) ==
    /\ req[s].pc = "loop"
    /\ req[s].route = "real-votes"
    /\ req[s].i < req[s].maxBallotsToEnrich
    /\ LET r == req[s]
           ballot == r.ballotsData.objects[r.i + 1]
           voteUrlParts == VoteUrlParts(ballot.vote_url)
       IN IF CanParse(voteUrlParts)
          THEN LET fetch == [ index       |-> r.i,
                              voteSession |-> VoteSession(voteUrlParts),
                              voteNumber  |-> VoteNumberOf(voteUrlParts) ]
               IN req' = [req EXCEPT ![s] =
                             [r EXCEPT !.pc = "await_vote",
                                       !.pending = fetch,
                                       !.calls.votes = Append(@, fetch)]]
          ELSE req' = [req EXCEPT ![s] =
                          [r EXCEPT !.enriched = Append(@, RealVotesInvalidItem(ballot)),
                                    !.outcomes = Append(@, "skip"),
                                    !.i = @ + 1]]
    /\ UNCHANGED <<storeVars, cache, now, upstream, failLeft, reqLeft, hist>>

\* slip: a failed vote fetch reaches the outer catch
RealVotesVoteReturn_Escalates(s) ==
    /\ req[s].pc = "await_vote"
    /\ req[s].route = "real-votes"
    /\ LET r == req[s]
           ballot == r.ballotsData.objects[r.i + 1]
       IN \/ /\ req' = [req EXCEPT ![s] =
                           [r EXCEPT !.pc = "loop",
                                     !.pending = EmptyObj,
                                     !.i = @ + 1,
                                     !.outcomes = Append(@, "ok"),
                                     !.enriched = Append(@,
                                         RealVotesMergedItem(ballot,
                                             r.pending.voteSession, r.pending.voteNumber,
                                             VoteDetailFor(r.pending.voteNumber)))]]
             /\ failLeft' = failLeft
             /\ hist' = hist
          \/ /\ failLeft > 0
             /\ failLeft' = failLeft - 1
             /\ req' = [req EXCEPT ![s] =
                           Respond(r, 500, [ error   |-> "Failed to retrieve voting history",
                                             details |-> VoteFetchError ])]
             /\ hist' = HistServed(hist, "real-votes", r.memberName, 500)
    /\ UNCHANGED <<storeVars, cache, now, upstream, reqLeft>>

\* lines 189-205 and 220-234: the vote fetch returns or throws
RealVotesVoteReturn(s) ==
    /\ req[s].pc = "await_vote"
    /\ req[s].route = "real-votes"
    /\ LET r == req[s]
           ballot == r.ballotsData.objects[r.i + 1]
       IN \/ /\ req' = [req EXCEPT ![s] =
                           [r EXCEPT !.pc = "loop",
                                     !.pending = EmptyObj,
                                     !.i = @ + 1,
                                     !.outcomes = Append(@, "ok"),
                                     !.enriched = Append(@,
                                         RealVotesMergedItem(ballot,
                                             r.pending.voteSession, r.pending.voteNumber,
                                             VoteDetailFor(r.pending.voteNumber)))]]
             /\ failLeft' = failLeft
          \/ /\ failLeft > 0
             /\ failLeft' = failLeft - 1
             /\ req' = [req EXCEPT ![s] =
                           [r EXCEPT !.pc = "loop",
                                     !.pending = EmptyObj,
                                     !.i = @ + 1,
                                     !.outcomes = Append(@, "fail"),
                                     !.enriched = Append(@,
                                         RealVotesErrorItem(ballot, VoteFetchError))]]
    /\ UNCHANGED <<storeVars, cache, now, upstream, reqLeft, hist>>

\* slip: the array of items is shared by the runs in flight
RealVotesFinish_SharedArray(s) ==
    /\ req[s].pc = "loop"
    /\ req[s].route = "real-votes"
    /\ req[s].i >= req[s].maxBallotsToEnrich
    /\ LET r == req[s]
           m == r.memberName
           others == {t \in Slots \ {s} : req[t].pc \in {"loop", "await_vote"}}
           shared == IF others = {} THEN r.enriched
                     ELSE r.enriched \o req[CHOOSE t \in others : TRUE].enriched
           enrichedVotes == shared \o
               RealVotesRemaining(r.ballotsData.objects, r.maxBallotsToEnrich)
           responseData == RealVotesResponseData(m, r.ballotsData,
                                                 enrichedVotes, r.maxBallotsToEnrich)
       IN /\ cache' = CacheSet(cache, RealVotesKey(m), responseData, CACHE_MS, now)
          /\ req' = [req EXCEPT ![s] =
                        Respond([r EXCEPT !.enriched = enrichedVotes,
                                          !.calls.sets = @ + 1],
                                200, responseData)]
          /\ hist' = HistComputed(hist, "real-votes", m, responseData, now)
    /\ UNCHANGED <<storeVars, now, upstream, failLeft, reqLeft>>

\* lines 237-267: remaining ballots, assemble, cache.set, respond
RealVotesFinish(s) ==
    /\ req[s].pc = "loop"
    /\ req[s].route = "real-votes"
    /\ req[s].i >= req[s].maxBallotsToEnrich
    /\ LET r == req[s]
           m == r.memberName
           enrichedVotes == r.enriched \o
               RealVotesRemaining(r.ballotsData.objects, r.maxBallotsToEnrich)
           responseData == RealVotesResponseData(m, r.ballotsData,
                                                 enrichedVotes, r.maxBallotsToEnrich)
       IN /\ cache' = CacheSet(cache, RealVotesKey(m), responseData, CACHE_MS, now)
          /\ req' = [req EXCEPT ![s] =
                        Respond([r EXCEPT !.enriched = enrichedVotes,
                                          !.calls.sets = @ + 1],
                                200, responseData)]
          /\ hist' = HistComputed(hist, "real-votes", m, responseData, now)
    /\ UNCHANGED <<storeVars, now, upstream, failLeft, reqLeft>>

----------------------------------------------------------------------------
(* GET /:memberName/ballots *)

\* lines 281-307: probe the cache; on a hit respond, else issue the list fetch
BallotsStart(s, m) ==
    /\ CanArrive(s)
    /\ reqLeft' = reqLeft - 1
    /\ LET cacheKey == BallotsKey(m)
           cachedData == CacheGet(cache, cacheKey, now)
           r == [req[s] EXCEPT !.route = "ballots", !.memberName = m]
       IN IF Truthy(cachedData)
          THEN /\ req' = [req EXCEPT ![s] = Respond(r, 200, cachedData)]
               /\ hist' = HistServed(hist, "ballots", m, 200)
          ELSE /\ req' = [req EXCEPT ![s] =
                             [r EXCEPT !.pc = "await_list", !.calls.list = @ + 1]]
               /\ hist' = hist
    /\ UNCHANGED <<storeVars, cache, now, upstream, failLeft>>

\* slip: no return after the 404 answer, the handler goes on into its catch
\* and answers again
BallotsListReturn_NoReturn(s) ==
    /\ req[s].pc = "await_list"
    /\ req[s].route = "ballots"
    /\ \E outcome \in ListOutcomes :
         LET r == [req[s] EXCEPT !.listOutcome = outcome]
             m == r.memberName
             ballotsData == ListBody(m, outcome)
         IN IF outcome \in ListErrors
            THEN /\ req' = [req EXCEPT ![s] =
                               Respond(r, 500, [ error   |-> "Error fetching voting history",
                                                 details |-> ListErrorMessage(outcome) ])]
                 /\ hist' = HistServed(hist, "ballots", m, 500)
            ELSE IF NoBallots(ballotsData)
            THEN /\ req' = [req EXCEPT ![s] =
                               Respond(Respond(r, 404, [ error |-> "No voting history found for this member" ]),
                                       500, [ error   |-> "Error fetching voting history",
                                              details |-> "Cannot read properties of undefined (reading 'length')" ])]
                 /\ hist' = HistServed(hist, "ballots", m, 404)
            ELSE /\ req' = [req EXCEPT ![s] =
                               [r EXCEPT !.pc = "loop",
                                         !.ballotsData = ballotsData,
                                         !.i = 0,
                                         !.enriched = <<>>,
                                         !.maxBallotsToEnrich =
                                             MaxBallotsToEnrich(ballotsData.objects)]]
                 /\ hist' = hist
    /\ UNCHANGED <<storeVars, cache, now, upstream, failLeft, reqLeft>>

\* lines 301-322 and 382-388: the list fetch returns, or throws into the outer catch
BallotsListReturn(s) ==
    /\ req[s].pc = "await_list"
    /\ req[s].route = "ballots"
    /\ \E outcome \in ListOutcomes :
         LET r == [req[s] EXCEPT !.listOutcome = outcome]
             m == r.memberName
             ballotsData == ListBody(m, outcome)
         IN IF outcome \in ListErrors
            THEN /\ req' = [req EXCEPT ![s] =
                               Respond(r, 500, [ error   |-> "Error fetching voting history",
                                                 details |-> ListErrorMessage(outcome) ])]
                 /\ hist' = HistServed(hist, "ballots", m, 500)
            ELSE IF NoBallots(ballotsData)
            THEN /\ req' = [req EXCEPT ![s] =
                               Respond(r, 404, [ error |-> "No voting history found for this member" ])]
                 /\ hist' = HistServed(hist, "ballots", m, 404)
            ELSE /\ req' = [req EXCEPT ![s] =
                               [r EXCEPT !.pc = "loop",
                                         !.ballotsData = ballotsData,
                                         !.i = 0,
                                         !.enriched = <<>>,
                                         !.maxBallotsToEnrich =
                                             MaxBallotsToEnrich(ballotsData.objects)]]
                 /\ hist' = hist
    /\ UNCHANGED <<storeVars, cache, now, upstream, failLeft, reqLeft>>

\* lines 324-342 and 355-358: one pass of the loop body up to its await
BallotsLoop(s) ==
    /\ req[s].pc = "loop"
    /\ req[s].route = "ballots"
    /\ req[s].i < req[s].maxBallotsToEnrich
    /\ LET r == req[s]
           ballot == r.ballotsData.objects[r.i + 1]
           voteUrlParts == VoteUrlParts(ballot.vote_url)
       IN IF CanParse(voteUrlParts)
          THEN LET fetch == [ index       |-> r.i,
                              voteSession |-> VoteSession(voteUrlParts),
                              voteNumber  |-> VoteNumberOf(voteUrlParts) ]
               IN req' = [req EXCEPT ![s] =
                             [r EXCEPT !.pc = "await_vote",
                                       !.pending = fetch,
                                       !.calls.votes = Append(@, fetch)]]
          ELSE req' = [req EXCEPT ![s] =
                          [r EXCEPT !.enriched = Append(@, ballot), !.i = @ + 1]]
    /\ UNCHANGED <<storeVars, cache, now, upstream, failLeft, reqLeft, hist>>

\* lines 344-354 and 359-363: the vote fetch returns or throws
BallotsVoteReturn(s) ==
    /\ req[s].pc = "await_vote"
    /\ req[s].route = "ballots"
    /\ LET r == req[s]
           ballot == r.ballotsData.objects[r.i + 1]
       IN \/ /\ req' = [req EXCEPT ![s] =
                           [r EXCEPT !.pc = "loop",
                                     !.pending = EmptyObj,
                                     !.i = @ + 1,
                                     !.enriched = Append(@,
                                         BallotsMergedItem(ballot,
                                             VoteDetailFor(r.pending.voteNumber)))]]
             /\ failLeft' = failLeft
          \/ /\ failLeft > 0
             /\ failLeft' = failLeft - 1
             /\ req' = [req EXCEPT ![s] =
                           [r EXCEPT !.pc = "loop",
                                     !.pending = EmptyObj,
                                     !.i = @ + 1,
                                     !.enriched = Append(@, ballot)]]
    /\ UNCHANGED <<storeVars, cache, now, upstream, reqLeft, hist>>

\* slip: the upstream collection is cached instead of the assembled result
BallotsFinish_CachesRaw(s) ==
    /\ req[s].pc = "loop"
    /\ req[s].route = "ballots"
    /\ req[s].i >= req[s].maxBallotsToEnrich
    /\ LET r == req[s]
           m == r.memberName
           enrichedBallots == r.enriched \o
               BallotsRemaining(r.ballotsData.objects, r.maxBallotsToEnrich)
           responseData == BallotsResponseData(r.ballotsData, enrichedBallots)
       IN /\ cache' = CacheSet(cache, BallotsKey(m), r.ballotsData, CACHE_MS, now)
          /\ req' = [req EXCEPT ![s] =
                        Respond([r EXCEPT !.enriched = enrichedBallots,
                                          !.calls.sets = @ + 1],
                                200, responseData)]
          /\ hist' = HistComputed(hist, "ballots", m, responseData, now)
    /\ UNCHANGED <<storeVars, now, upstream, failLeft, reqLeft>>

\* lines 366-381: remaining ballots, assemble, cache.set, respond
BallotsFinish(s) ==
    /\ req[s].pc = "loop"
    /\ req[s].route = "ballots"
    /\ req[s].i >= req[s].maxBallotsToEnrich
    /\ LET r == req[s]
           m == r.memberName
           enrichedBallots == r.enriched \o
               BallotsRemaining(r.ballotsData.objects, r.maxBallotsToEnrich)
           responseData == BallotsResponseData(r.ballotsData, enrichedBallots)
       IN /\ cache' = CacheSet(cache, BallotsKey(m), responseData, CACHE_MS, now)
          /\ req' = [req EXCEPT ![s] =
                        Respond([r EXCEPT !.enriched = enrichedBallots,
                                          !.calls.sets = @ + 1],
                                200, responseData)]
          /\ hist' = HistComputed(hist, "ballots", m, responseData, now)
    /\ UNCHANGED <<storeVars, now, upstream, failLeft, reqLeft>>

----------------------------------------------------------------------------
(* The store-backed handlers: GET /, GET /:memberName, GET /:memberName/votes *)

\* the request enters the handler; with a usable search text the list route
\* goes straight to the upstream, every other request awaits findOne
StoreStart(s, route, m, search) ==
    /\ CanArrive(s)
    /\ reqLeft' = reqLeft - 1
    /\ mreq' = [mreq EXCEPT ![s] =
          [ IdleM EXCEPT
              !.pc         = IF NoSearch(search) THEN "find" ELSE "fetch",
              !.route      = route,
              !.memberName = m,
              !.search     = search,
              !.cacheKey   = StoreKey(route, m),
              !.lookupAt   = now,
              !.calls      = IF NoSearch(search)
                             THEN [NoStoreCalls EXCEPT !.finds = 1]
                             ELSE [NoStoreCalls EXCEPT !.fetches = 1] ]]
    /\ UNCHANGED <<cache, now, req, upstream, failLeft, hist,
                   db, baseUrl, version, reads, ttlCall, maxInFlight>>

\* what the store held under the key when the lookup ran, for the properties
HasStale(d, key, at) ==
    \E i \in DOMAIN d : d[i].url = key /\ d[i].expires <= at

HasFresh(d, key, at) ==
    \E i \in DOMAIN d : d[i].url = key /\ d[i].expires > at

\* what a lookup answered, for the properties
ReadOf(r) ==
    [ at      |-> r.lookupAt,
      hit     |-> r.found # JNull,
      data    |-> IF r.found # JNull THEN r.found.data ELSE JNull,
      created |-> IF r.found # JNull THEN r.found.created ELSE 0 ]

\* await Member.findOne(...) returns: a record answers the request, null
\* sends it to the upstream, a store error goes to the handler's catch
StoreFindReturn(s, route, errStatus, errBody) ==
    /\ mreq[s].pc = "find"
    /\ mreq[s].route = route
    /\ \/ LET r == [ mreq[s] EXCEPT
                       !.findOutcome = "ok",
                       !.sawStale    = HasStale(db, mreq[s].cacheKey, mreq[s].lookupAt),
                       !.sawFresh    = HasFresh(db, mreq[s].cacheKey, mreq[s].lookupAt),
                       !.found       = FindOne(db, StoreFilter(mreq[s].cacheKey,
                                                               mreq[s].lookupAt)) ]
          IN /\ mreq' = [mreq EXCEPT ![s] =
                    IF r.found # JNull
                    THEN Respond(r, 200, r.found.data)
                    ELSE [r EXCEPT !.pc = "fetch", !.calls.fetches = 1]]
             /\ reads' = [reads EXCEPT ![r.cacheKey] = @ \cup {ReadOf(r)}]
             /\ UNCHANGED failLeft
       \/ /\ failLeft > 0
          /\ failLeft' = failLeft - 1
          /\ mreq' = [mreq EXCEPT ![s] =
                Respond([mreq[s] EXCEPT !.findOutcome = "error"], errStatus, errBody)]
          /\ UNCHANGED reads
    /\ UNCHANGED <<cache, now, req, upstream, reqLeft, hist,
                   db, baseUrl, version, ttlCall, maxInFlight>>

\* the body of a request answered from the upstream without a save
SearchBody(apiData, search) ==
    [apiData EXCEPT !.objects = SearchFilter(@, search)]

\* await fetchFromAPI(...) returns: the data is wrapped in a record to save
\* (or, for a search, filtered and sent), a failure goes to the catch
StoreFetchReturn(s, route, errStatus, errBody) ==
    /\ mreq[s].pc = "fetch"
    /\ mreq[s].route = route
    /\ \E up \in UpAnswers :
          LET outcome == FetchOutcome(up)
              r == [mreq[s] EXCEPT !.upAnswer = up, !.fetchOutcome = outcome]
              apiData == UpstreamData(route, r.memberName, version)
          IN /\ (baseUrl = "defined" /\ up # "ok") => failLeft > 0
             /\ failLeft' = IF baseUrl = "defined" /\ up # "ok"
                            THEN failLeft - 1 ELSE failLeft
             /\ mreq' = [mreq EXCEPT ![s] =
                   IF outcome # "ok" THEN Respond(r, errStatus, errBody[outcome])
                   ELSE IF ~NoSearch(r.search)
                   THEN Respond(r, 200, SearchBody(apiData, r.search))
                   ELSE [ r EXCEPT
                            !.pc          = "save",
                            !.saving      = StoreRecord(route, r.memberName,
                                                        r.cacheKey, apiData, now),
                            !.calls.saves = 1 ]]
    /\ UNCHANGED <<cache, now, req, upstream, reqLeft, hist,
                   db, baseUrl, version, reads, ttlCall, maxInFlight>>

\* await record.save() returns: the record is in the store and its data is
\* sent, or the save failed and the catch answers
StoreSaveReturn(s, route, errStatus, errBody) ==
    /\ mreq[s].pc = "save"
    /\ mreq[s].route = route
    /\ \/ /\ db' = Save(db, mreq[s].saving)
          /\ reads' = [reads EXCEPT ![mreq[s].cacheKey] = {}]
          /\ mreq' = [mreq EXCEPT ![s] =
                Respond([mreq[s] EXCEPT !.saveOutcome = "ok"],
                        200, mreq[s].saving.data)]
          /\ UNCHANGED failLeft
       \/ /\ failLeft > 0
          /\ failLeft' = failLeft - 1
          /\ mreq' = [mreq EXCEPT ![s] =
                Respond([mreq[s] EXCEPT !.saveOutcome = "error"], errStatus, errBody)]
          /\ UNCHANGED <<db, reads>>
    /\ UNCHANGED <<cache, now, req, upstream, reqLeft, hist,
                   baseUrl, version, ttlCall, maxInFlight>>

\* GET / : a failure of any await ends in the catch, 500 with the message
ListStart(s, search) == StoreStart(s, "list", "none", search)

ListFindReturn(s) == StoreFindReturn(s, "list", 500, ErrorBody(FindErrorMessage))

ListFetchReturn(s) ==
    StoreFetchReturn(s, "list", 500, FetchErrorBodies)

ListSaveReturn(s) == StoreSaveReturn(s, "list", 500, ErrorBody(SaveErrorMessage))

\* GET /:memberName : the same sequence on the member's path
MemberStart(s, m) == StoreStart(s, "member", m, JUndef)

MemberFindReturn(s) ==
    StoreFindReturn(s, "member", 500, ErrorBody(FindErrorMessage))

MemberFetchReturn(s) ==
    StoreFetchReturn(s, "member", 500, FetchErrorBodies)

MemberSaveReturn(s) ==
    StoreSaveReturn(s, "member", 500, ErrorBody(SaveErrorMessage))

\* GET /:memberName/votes : a failed findOne ends in the outer catch, a failed
\* fetch or save in the inner catch; both answer 200 with an empty body
VotesStart(s, m) == StoreStart(s, "votes", m, JUndef)

VotesFindReturn(s) == StoreFindReturn(s, "votes", 200, VotesErrorBody)

\* slip: the failure is reported as an error status
VotesFetchReturn_Propagates(s) ==
    StoreFetchReturn(s, "votes", 500, FetchErrorBodies)

VotesFetchReturn(s) ==
    StoreFetchReturn(s, "votes", 200,
                     [o \in FetchFailures |-> VotesApiErrorBody(mreq[s].memberName)])

\* slip: a failed save is reported as an error status
VotesSaveReturn_Propagates(s) ==
    StoreSaveReturn(s, "votes", 500, ErrorBody(SaveErrorMessage))

VotesSaveReturn(s) ==
    StoreSaveReturn(s, "votes", 200, VotesApiErrorBody(mreq[s].memberName))

\* the response has been sent: the slot is free for the next request
StoreComplete(s) ==
    /\ mreq[s].pc = "done"
    /\ mreq' = [mreq EXCEPT ![s] = IdleM]
    /\ UNCHANGED <<cache, now, req, upstream, failLeft, reqLeft, hist,
                   db, baseUrl, version, reads, ttlCall, maxInFlight>>

----------------------------------------------------------------------------
(* Environment *)

\* the upstream's content changes
UpstreamChanges ==
    /\ version < MaxVersion
    /\ version' = version + 1
    /\ UNCHANGED <<cache, now, req, upstream, failLeft, reqLeft, hist,
                   db, mreq, baseUrl, reads, ttlCall, maxInFlight>>

\* time passes, by the shortest lifetime of a record
StoreTick ==
    /\ now < MaxStoreTicks * CACHE_TTL_LIST
    /\ now' = now + CACHE_TTL_LIST
    /\ UNCHANGED <<storeVars, cache, req, upstream, failLeft, reqLeft, hist>>

\* the response has been sent: the slot is free for the next request
Complete(s) ==
    /\ req[s].pc = "done"
    /\ req' = [req EXCEPT ![s] = IdleReq]
    /\ UNCHANGED <<storeVars, cache, now, upstream, failLeft, reqLeft, hist>>

\* time passes
Tick ==
    /\ now < MaxTicks * TickMs
    /\ now' = now + TickMs
    /\ UNCHANGED <<storeVars, cache, req, upstream, failLeft, reqLeft, hist>>

----------------------------------------------------------------------------
(* Specifications *)

InitProcess ==
    /\ cache = EmptyObj
    /\ now = 0
    /\ req = [s \in Slots |-> IdleReq]
    /\ hist = [rm \in Routes \X Members |-> NoHist]
    /\ upstream \in [pattern : 0..MaxPattern, n : 0..MaxBallots]
    /\ db = <<>>
    /\ mreq = [s \in Slots |-> IdleM]
    /\ version = 0
    /\ reads = [k \in StoreKeys |-> {}]

\* several requests one after the other over short ballot collections, a
\* bounded number of failed vote fetches
Init ==
    /\ InitProcess
    /\ baseUrl = "defined"
    /\ maxInFlight = 1
    /\ ttlCall = NoTtlCall
    /\ upstream.n <= MaxShortList
    /\ reqLeft = MaxRequests
    /\ failLeft = MaxFailures

\* one request, any vote fetch may fail
InitRun ==
    /\ InitProcess
    /\ baseUrl = "defined"
    /\ maxInFlight = 1
    /\ ttlCall = NoTtlCall
    /\ reqLeft = 1
    /\ failLeft = MaxEnrich

Handlers ==
    \E s \in Slots :
        \/ \E m \in Members : RealVotesStart(s, m)
        \/ RealVotesListReturn(s)
        \/ RealVotesLoop(s)
        \/ RealVotesVoteReturn(s)
        \/ RealVotesFinish(s)
        \/ \E m \in Members : BallotsStart(s, m)
        \/ BallotsListReturn(s)
        \/ BallotsLoop(s)
        \/ BallotsVoteReturn(s)
        \/ BallotsFinish(s)
        \/ Complete(s)

Next == Handlers \/ Tick

Spec == Init /\ [][Next]_vars

SpecRun == InitRun /\ [][Handlers]_vars

\* the store-backed routes, one request after the other; the base URL of the
\* upstream is either supplied as a global or, as in proxy.js alone, undefined
InitStore ==
    /\ InitProcess
    /\ upstream = [pattern |-> 0, n |-> 0]
    /\ baseUrl \in {"defined", "undefined"}
    /\ maxInFlight = 1
    /\ ttlCall = NoTtlCall
    /\ reqLeft = MaxStoreRequests
    /\ failLeft = MaxFailures

StoreHandlers ==
    \E s \in Slots :
        \/ \E search \in Searches : ListStart(s, search)
        \/ ListFindReturn(s)
        \/ ListFetchReturn(s)
        \/ ListSaveReturn(s)
        \/ \E m \in Members : MemberStart(s, m)
        \/ MemberFindReturn(s)
        \/ MemberFetchReturn(s)
        \/ MemberSaveReturn(s)
        \/ \E m \in Members : VotesStart(s, m)
        \/ VotesFindReturn(s)
        \/ VotesFetchReturn(s)
        \/ VotesSaveReturn(s)
        \/ StoreComplete(s)

NextStore == StoreHandlers \/ UpstreamChanges \/ StoreTick

SpecStore == InitStore /\ [][NextStore]_vars

\* two real-votes requests in flight for one member
InitConc ==
    /\ InitProcess
    /\ baseUrl = "defined"
    /\ maxInFlight = 2
    /\ ttlCall = NoTtlCall
    /\ upstream.n <= MaxShortList
    /\ reqLeft = MaxRequests
    /\ failLeft = MaxFailures

NextConc ==
    \E s \in Slots :
        \/ RealVotesStart(s, "alice")
        \/ RealVotesListReturn(s)
        \/ RealVotesLoop(s)
        \/ RealVotesVoteReturn(s)
        \/ RealVotesFinish(s)
        \/ Complete(s)

SpecConc == InitConc /\ [][NextConc]_vars

\* one request of the real-votes, ballots or votes route; every await
\* eventually returns or fails and the handler goes on after it
InitLive ==
    /\ InitProcess
    /\ baseUrl \in {"defined", "undefined"}
    /\ maxInFlight = 1
    /\ ttlCall = NoTtlCall
    /\ reqLeft = 1
    /\ failLeft = MaxEnrich

\* the steps of the handler running in slot s
LiveStep(s) ==
    \/ RealVotesListReturn(s)
    \/ RealVotesLoop(s)
    \/ RealVotesVoteReturn(s)
    \/ RealVotesFinish(s)
    \/ BallotsListReturn(s)
    \/ BallotsLoop(s)
    \/ BallotsVoteReturn(s)
    \/ BallotsFinish(s)
    \/ VotesFindReturn(s)
    \/ VotesFetchReturn(s)
    \/ VotesSaveReturn(s)

NextLive ==
    \E s \in Slots :
        \/ \E m \in Members : RealVotesStart(s, m)
        \/ \E m \in Members : BallotsStart(s, m)
        \/ \E m \in Members : VotesStart(s, m)
        \/ LiveStep(s)
        \/ Complete(s)
        \/ StoreComplete(s)

SpecLive ==
    /\ InitLive
    /\ [][NextLive]_vars
    /\ \A s \in Slots : WF_vars(LiveStep(s))

\* two requests in flight on the member route of one member
InitDup ==
    /\ InitProcess
    /\ upstream = [pattern |-> 0, n |-> 0]
    /\ baseUrl = "defined"
    /\ maxInFlight = 2
    /\ ttlCall = NoTtlCall
    /\ reqLeft = MaxDupRequests
    /\ failLeft = 1

DupHandlers ==
    \E s \in Slots :
        \/ MemberStart(s, "alice")
        \/ MemberFindReturn(s)
        \/ MemberFetchReturn(s)
        \/ MemberSaveReturn(s)
        \/ StoreComplete(s)

NextDup == DupHandlers \/ UpstreamChanges \/ StoreTick

SpecDup == InitDup /\ [][NextDup]_vars

\* the TTL policy alone: a path of TtlPaths is drawn and the policy is
\* called on it at some time
InitTTL ==
    /\ InitProcess
    /\ upstream = [pattern |-> 0, n |-> 0]
    /\ baseUrl = "defined"
    /\ maxInFlight = 1
    /\ ttlCall \in {[NoTtlCall EXCEPT !.endpoint = e] : e \in TtlPaths}
    /\ reqLeft = 0
    /\ failLeft = 0

NextTTL == TtlCall \/ Tick

SpecTTL == InitTTL /\ [][NextTTL]_vars

----------------------------------------------------------------------------
(* Vocabulary of the properties *)

\* the ballot collection a running or finished pipeline got from its list fetch
ListOf(r) == r.ballotsData.objects

PipelineRan(r) == Has(r.ballotsData, "objects")

\* number of non-empty pieces of a reference, counted without VoteUrlParts
Segments(vote_url) == Cardinality({j \in DOMAIN vote_url : vote_url[j] # ""})

FetchedIndexes(r) == {r.calls.votes[k].index : k \in DOMAIN r.calls.votes}

\* C1: once the list fetch has returned a non-empty collection, whatever
\* vote fetches fail, the request never shows an error status, can always
\* take its next step, and finishes with HTTP 200, one item per ballot, a
\* cache write of the returned body, and a fetch attempted for every
\* parseable ballot below min(10, n).
C1_FailuresAbsorbed ==
    \A s \in Slots :
        LET r == req[s] IN
        PipelineRan(r) =>
            /\ r.response.status \in {0, 200}
            /\ r.pc \in {"loop", "await_vote"} => ENABLED Handlers
            /\ r.pc = "done" =>
                 /\ r.response.status = 200
                 /\ Len(r.response.body.objects) = Len(ListOf(r))
                 /\ r.calls.sets = 1
                 /\ CacheKey(r.route, r.memberName) \in DOMAIN cache
                 /\ cache[CacheKey(r.route, r.memberName)].payload = r.response.body
                 /\ FetchedIndexes(r) =
                        {i \in 0..(Min(10, Len(ListOf(r))) - 1) :
                            Segments(ListOf(r)[i + 1].vote_url) >= 3}

\* a finished real-votes run in which a fetch failed and a later ballot was
\* still fetched
C1_Witness ==
    \E s \in Slots :
        LET r == req[s] IN
        /\ r.pc = "done" /\ r.route = "real-votes" /\ PipelineRan(r)
        /\ r.response.status = 200
        /\ \E i, j \in FetchedIndexes(r) :
              /\ i < j
              /\ Has(r.response.body.objects[i + 1], "error")
              /\ r.response.body.objects[i + 1].error = VoteFetchError

\* C2: a real-votes result has exactly n items, enriched_count = min(10, n)
\* and total_count = n, n being the length of the fetched ballot list.
C2_Counts ==
    \A s \in Slots :
        LET r == req[s] IN
        (r.pc = "done" /\ r.route = "real-votes" /\ PipelineRan(r)) =>
            /\ Len(ListOf(r)) = upstream.n
            /\ Len(r.response.body.objects) = upstream.n
            /\ r.response.body.meta.enriched_count = Min(10, upstream.n)
            /\ r.response.body.meta.total_count = upstream.n

\* a finished real-votes run over more than ten ballots with a failed fetch
C2_Witness ==
    \E s \in Slots :
        LET r == req[s] IN
        /\ r.pc = "done" /\ r.route = "real-votes" /\ PipelineRan(r)
        /\ upstream.n > 10
        /\ r.response.body.meta.enriched_count = 10
        /\ \E k \in 1..10 : Has(r.response.body.objects[k], "error")

\* item k of a real-votes result is built from ballot b
FromBallotRealVotes(item, b) ==
    /\ item.raw_ballot = b
    /\ item.vote_url = b.vote_url
    /\ item.vote \in {b.ballot, TranslateChoice(b.ballot)}

\* item k of a ballots result is built from ballot b
FromBallotBallots(item, b) ==
    \A f \in DOMAIN b : Has(item, f) /\ item[f] = b[f]

\* C3: the item at position i, pushed so far or returned, is built from the
\* ballot at position i of the upstream ballot list.
C3_OrderPreserved ==
    \A s \in Slots :
        LET r == req[s]
            src == UpstreamBallots(r.memberName, upstream.pattern, upstream.n)
            items == IF r.pc = "done" THEN r.response.body.objects ELSE r.enriched
        IN PipelineRan(r) =>
            /\ r.pc = "done" => Len(items) = Len(src)
            /\ \A k \in DOMAIN items :
                  /\ k <= Len(src)
                  /\ IF r.route = "real-votes"
                     THEN FromBallotRealVotes(items[k], src[k])
                     ELSE FromBallotBallots(items[k], src[k])

\* a finished run whose result holds an enriched item, a placeholder after a
\* failed fetch, a placeholder after a skipped fetch and an item past the cap
C3_Witness ==
    \E s \in Slots :
        LET r == req[s] IN
        /\ r.pc = "done" /\ r.route = "real-votes" /\ PipelineRan(r)
        /\ Len(r.response.body.objects) > 10
        /\ \E k \in 1..10 : Has(r.response.body.objects[k], "raw_vote")
        /\ \E k \in 1..10 : Has(r.response.body.objects[k], "error")
        /\ \E k \in 1..10 :
              r.response.body.objects[k].description = "Vote details unavailable"

\* C4: a run issues at most min(10, n) vote fetches and none for a ballot at
\* index 10 or higher.
C4_FanOutCapped ==
    \A s \in Slots :
        LET r == req[s] IN
        /\ Len(r.calls.votes) <= 10
        /\ PipelineRan(r) => Len(r.calls.votes) <= Min(10, Len(ListOf(r)))
        /\ \A k \in DOMAIN r.calls.votes : r.calls.votes[k].index < 10
        /\ \A k, l \in DOMAIN r.calls.votes :
              k < l => r.calls.votes[k].index < r.calls.votes[l].index

\* a finished run over eleven or more ballots that issued ten fetches, some failed
C4_Witness ==
    \E s \in Slots :
        LET r == req[s] IN
        /\ r.pc = "done" /\ PipelineRan(r)
        /\ Len(ListOf(r)) > 10
        /\ Len(r.calls.votes) = 10
        /\ failLeft < 10

\* the non-empty pieces of a reference, in order
RECURSIVE NonEmptyFrom(_, _)
NonEmptyFrom(vote_url, k) ==
    IF k > Len(vote_url) THEN <<>>
    ELSE IF vote_url[k] = "" THEN NonEmptyFrom(vote_url, k + 1)
    ELSE <<vote_url[k]>> \o NonEmptyFrom(vote_url, k + 1)

\* C5: for a ballot whose reference has at least 3 non-empty segments, the
\* vote fetch asks for (second-to-last segment, last segment), and the id of
\* the merged real-votes item is built from that pair.
C5_LastTwoSegments ==
    \A s \in Slots :
        LET r == req[s] IN
        PipelineRan(r) =>
            \A k \in DOMAIN r.calls.votes :
                LET fetch == r.calls.votes[k]
                    segs == NonEmptyFrom(ListOf(r)[fetch.index + 1].vote_url, 1)
                IN /\ fetch.voteSession = segs[Len(segs) - 1]
                   /\ fetch.voteNumber = segs[Len(segs)]

\* C6: in real-votes a ballot below the cap whose reference has fewer than 3
\* non-empty segments gets the placeholder item (sentinel bill, date and
\* result, the ballot's own choice), no fetch is issued for it, and the
\* ballots after it are still processed.
C6_UnparseableSkipped ==
    \A s \in Slots :
        LET r == req[s]
            items == IF r.pc = "done" THEN r.response.body.objects ELSE r.enriched
        IN (PipelineRan(r) /\ r.route = "real-votes") =>
            /\ \A i \in 0..(Min(10, Len(ListOf(r))) - 1) :
                  Segments(ListOf(r)[i + 1].vote_url) < 3 =>
                      /\ i \notin FetchedIndexes(r)
                      /\ i < Len(items) =>
                            /\ items[i + 1].bill = "Unknown"
                            /\ items[i + 1].date = "Unknown date"
                            /\ items[i + 1].result = "Unknown"
                            /\ items[i + 1].vote = ListOf(r)[i + 1].ballot
                            /\ ~Has(items[i + 1], "raw_vote")
            /\ r.pc = "done" => Len(items) = Len(ListOf(r))

\* a finished real-votes run that skipped a ballot with a short reference and
\* fetched a later one
C6_Witness ==
    \E s \in Slots :
        LET r == req[s] IN
        /\ r.pc = "done" /\ r.route = "real-votes" /\ PipelineRan(r)
        /\ \E i \in 0..(Min(10, Len(ListOf(r))) - 1) :
              /\ Segments(ListOf(r)[i + 1].vote_url) < 3
              /\ Len(ListOf(r)[i + 1].vote_url) >= 3
              /\ \E j \in FetchedIndexes(r) : j > i

HasSentinels(item) ==
    /\ Has(item, "date") /\ item.date = "Unknown date"
    /\ Has(item, "result") /\ item.result = "Unknown"

\* C7 as stated: in the result of either entry point every item at index 10
\* or higher has the date and result sentinels.
C7_SentinelsBothRoutes ==
    \A s \in Slots :
        LET r == req[s] IN
        (r.pc = "done" /\ PipelineRan(r)) =>
            \A k \in DOMAIN r.response.body.objects :
                k > 10 => HasSentinels(r.response.body.objects[k])

\* C7 amended: in a real-votes result every item at index 10 or higher is the
\* ballot's data plus the date and result sentinels; in a ballots result such
\* an item is the upstream ballot itself, unchanged.
C7_SentinelsRealVotes ==
    \A s \in Slots :
        LET r == req[s] IN
        (r.pc = "done" /\ PipelineRan(r)) =>
            \A k \in DOMAIN r.response.body.objects :
                k > 10 =>
                    IF r.route = "real-votes"
                    THEN /\ HasSentinels(r.response.body.objects[k])
                         /\ r.response.body.objects[k].vote = ListOf(r)[k].ballot
                         /\ r.response.body.objects[k].vote_url = ListOf(r)[k].vote_url
                         /\ ~Has(r.response.body.objects[k], "raw_vote")
                    ELSE r.response.body.objects[k] = ListOf(r)[k]

\* a finished real-votes run with an item past the cap
C7_Witness ==
    \E s \in Slots :
        LET r == req[s] IN
        /\ r.pc = "done" /\ r.route = "real-votes" /\ PipelineRan(r)
        /\ Len(r.response.body.objects) > 10

----------------------------------------------------------------------------
(* Properties of the cache protocol, over steps *)

Unexpired(route, m) ==
    /\ CacheKey(route, m) \in DOMAIN cache
    /\ cache[CacheKey(route, m)].expiresAt > now

Arrives(s) == req[s].pc = "idle" /\ req'[s].pc # "idle"

\* C8: a request that arrives while the cache holds an unexpired entry under
\* its key is answered in that step with exactly the cached payload; it
\* issues no list fetch and no vote fetch and writes nothing to the cache.
C8_HitServesCache ==
    [][ \A s \in Slots :
          (Arrives(s) /\ Unexpired(req'[s].route, req'[s].memberName)) =>
              /\ req'[s].pc = "done"
              /\ req'[s].response =
                    [ status |-> 200,
                      body   |-> cache[CacheKey(req'[s].route, req'[s].memberName)].payload ]
              /\ req'[s].calls = NoCalls
              /\ cache' = cache ]_vars

\* a request answered from the cache after time has passed
C8_Witness ==
    \E s \in Slots :
        /\ req[s].pc = "done"
        /\ req[s].calls = NoCalls
        /\ req[s].response.status = 200
        /\ now > 0

\* C9: the step that finishes a pipeline run stores the returned body under
\* the key of its route and member; and a request for a route and member
\* whose last pipeline run finished less than an hour ago is answered with
\* the body that run returned, without any upstream call.
C9_StoredIsReturned ==
    [][ \A s \in Slots :
          /\ (req[s].pc # "done" /\ req'[s].pc = "done" /\ req'[s].calls.list > 0
                /\ req'[s].response.status = 200) =>
                 /\ CacheKey(req'[s].route, req'[s].memberName) \in DOMAIN cache'
                 /\ cache'[CacheKey(req'[s].route, req'[s].memberName)] =
                       [ payload   |-> req'[s].response.body,
                         expiresAt |-> now + 3600000 ]
          /\ (Arrives(s)
                /\ hist[<<req'[s].route, req'[s].memberName>>].computed # JUndef
                /\ now < hist[<<req'[s].route, req'[s].memberName>>].at + 3600000) =>
                 /\ req'[s].pc = "done"
                 /\ req'[s].response.status = 200
                 /\ req'[s].response.body =
                       hist[<<req'[s].route, req'[s].memberName>>].computed
                 /\ req'[s].calls = NoCalls ]_vars

\* a request answered from the cache with the body of the earlier run, while
\* the other member has no entry
C9_Witness ==
    \E s \in Slots :
        /\ req[s].pc = "done"
        /\ req[s].calls = NoCalls
        /\ req[s].response.status = 200
        /\ req[s].response.body = hist[<<req[s].route, req[s].memberName>>].computed
        /\ Cardinality(DOMAIN cache) = 1

\* C10: the cache changes only in the step that finishes a pipeline run with
\* HTTP 200, so a request ending in 404 or 500 writes nothing; and the next
\* request for a route and member whose last request ended in 404 or 500
\* issues the list fetch again.
C10_ErrorsNotCached ==
    [][ \A s \in Slots :
          /\ (req'[s].pc = "done" /\ req'[s].response.status \in {404, 500}) =>
                 cache' = cache
          /\ (cache' # cache) =>
                 \E t \in Slots : /\ req[t].pc = "loop" /\ req'[t].pc = "done"
                                  /\ req'[t].response.status = 200
          /\ (Arrives(s)
                /\ hist[<<req'[s].route, req'[s].memberName>>].status \in {404, 500}) =>
                 /\ req'[s].pc = "await_list"
                 /\ req'[s].calls.list = 1 ]_vars

\* a list fetch in flight for a route and member whose last request ended in
\* 404 or 500
C10_Witness ==
    \E s \in Slots :
        /\ req[s].pc = "await_list"
        /\ hist[<<req[s].route, req[s].memberName>>].status \in {404, 500}

----------------------------------------------------------------------------
(* Outcomes of the ballot-list fetch *)

\* C11: a ballot-list fetch that fails in any way of the taxonomy (transport
\* failure or timeout, non-success status, non-JSON body) ends the request in
\* HTTP 500 with an error and details, never in 404 or 200.
C11_ListFailureIs500 ==
    \A s \in Slots :
        LET r == req[s] IN
        (r.pc = "done" /\ r.listOutcome \in {"timeout", "status", "nonjson"}) =>
            /\ r.response.status = 500
            /\ Has(r.response.body, "error")
            /\ Has(r.response.body, "details")

\* C12: when the list fetch succeeds with an empty or absent collection the
\* request ends in HTTP 404 with the "No voting history" error and no vote
\* fetch has been issued.
C12_EmptyIs404 ==
    \A s \in Slots :
        LET r == req[s] IN
        (r.listOutcome = "absent" \/ (r.listOutcome = "ok" /\ upstream.n = 0)) =>
            /\ r.pc = "done"
            /\ r.response =
                  [ status |-> 404,
                    body   |-> [error |-> "No voting history found for this member"] ]
            /\ r.calls.votes = <<>>
            /\ r.calls.sets = 0
            /\ ~PipelineRan(r)

\* a request answered 404 after the upstream returned an empty array
C12_Witness ==
    \E s \in Slots :
        /\ req[s].pc = "done"
        /\ req[s].listOutcome = "ok"
        /\ upstream.n = 0
        /\ req[s].response.status = 404

----------------------------------------------------------------------------
(* The TTL policy *)

\* a path under a member's votes collection: "/politicians/<id>/votes/..."
IsMemberVotesPath(endpoint) ==
    /\ Len(endpoint) >= 5
    /\ endpoint[1] = "" /\ endpoint[2] = "politicians" /\ endpoint[4] = "votes"
    /\ endpoint[3] \notin {"", "politicians", "votes", "bills"}

\* "/politicians/<id>/" for a politician identifier
IsMemberDetailPath(endpoint) ==
    /\ Len(endpoint) = 4
    /\ endpoint[1] = "" /\ endpoint[2] = "politicians" /\ endpoint[4] = ""
    /\ endpoint[3] \notin {"", "politicians", "votes", "bills"}

\* C16 as stated: every path with a politician segment and a votes segment
\* (taken narrowly: every path "/politicians/<id>/votes/...") gets the
\* MEMBER_VOTES duration, the bare politician collection the LIST duration,
\* every single-politician detail path the DETAIL duration, and the expiry is
\* the call time plus that duration.
C16_TierByShape ==
    LET e == ttlCall.endpoint IN
    ttlCall.called =>
        /\ IsMemberVotesPath(e) => ttlCall.expires = ttlCall.at + 600000
        /\ e = <<"", "politicians", "">> => ttlCall.expires = ttlCall.at + 300000
        /\ IsMemberDetailPath(e) => ttlCall.expires = ttlCall.at + 1800000

\* C16 amended: a path that contains /politicians/, ends with /votes/ and has
\* no /bills/ segment gets MEMBER_VOTES; a path whose /votes/ segment is
\* followed by more gets DETAIL even when it contains /politicians/; the bare
\* /politicians/ path gets LIST; /politicians/<id>/ gets DETAIL; the expiry
\* is the call time plus the duration.
C16_TierByRuleOrder ==
    LET e == ttlCall.endpoint
        enclosed(seg) == \E k \in 2..(Len(e) - 1) : e[k] = seg
        last(seg) == Len(e) >= 3 /\ e[Len(e)] = "" /\ e[Len(e) - 1] = seg
    IN ttlCall.called =>
        /\ (enclosed("politicians") /\ last("votes") /\ ~enclosed("bills")) =>
               ttlCall.expires = ttlCall.at + 600000
        /\ (enclosed("votes") /\ ~last("votes")) =>
               ttlCall.expires = ttlCall.at + 1800000
        /\ e = <<"", "politicians", "">> => ttlCall.expires = ttlCall.at + 300000
        /\ IsMemberDetailPath(e) => ttlCall.expires = ttlCall.at + 1800000
        /\ ttlCall.expires - ttlCall.at \in {300000, 600000, 1800000}

\* the policy was called, after time had passed, on a member's votes path
C16_Witness ==
    /\ ttlCall.called
    /\ ttlCall.endpoint = <<"", "politicians", "alice", "votes", "">>
    /\ ttlCall.at > 0
    /\ ttlCall.expires = ttlCall.at + 600000


----------------------------------------------------------------------------
(* The store-backed routes *)

\* the request in slot s has been answered by the given route
StoreDone(s, route) == mreq[s].pc = "done" /\ mreq[s].route = route

\* the lookup of slot s found nothing usable
StoreMiss(s) == mreq[s].findOutcome = "ok" /\ mreq[s].found = JNull

\* the lifetime the contract gives to the records of a route
RouteTtl(route) ==
    IF route = "list" THEN 300000
    ELSE IF route = "member" THEN 1800000
    ELSE 600000

\* C13: the votes route, on a store miss followed by a failed upstream fetch,
\* answers 200 with an empty item list, a zero-count pagination and a
\* message, and saves no record under the key.
C13_VotesFailureIs200 ==
    \A s \in Slots :
        ( /\ StoreDone(s, "votes")
          /\ StoreMiss(s)
          /\ mreq[s].fetchOutcome \notin {"none", "ok"} ) =>
            /\ mreq[s].response.status = 200
            /\ mreq[s].response.body.objects = <<>>
            /\ mreq[s].response.body.pagination.count = 0
            /\ Has(mreq[s].response.body, "message")
            /\ mreq[s].calls.saves = 0
            /\ (~mreq[s].sawStale /\ ~mreq[s].sawFresh) =>
                   \A i \in DOMAIN db : db[i].url # mreq[s].cacheKey

\* a votes request missed the store, the upstream answered with an error
\* status, and the request has been answered
C13_Witness ==
    \E s \in Slots :
        /\ StoreDone(s, "votes")
        /\ StoreMiss(s)
        /\ mreq[s].fetchOutcome = "status"
        /\ mreq[s].response.status = 200

\* C14 as stated: the member route (and the list route without search), on a
\* store miss where the upstream answers with a success status and a JSON
\* body, responds with that body and saves a record under the key whose
\* expiry is the instant of construction plus the DETAIL (LIST) duration.
C14_MissFetchStore ==
    \A s \in Slots : \A route \in {"member", "list"} :
        ( /\ StoreDone(s, route)
          /\ StoreMiss(s)
          /\ mreq[s].upAnswer = "ok"
          /\ mreq[s].saveOutcome # "error" ) =>
            /\ mreq[s].response.status = 200
            /\ \E v \in 0..MaxVersion :
                  mreq[s].response.body = UpstreamData(route, mreq[s].memberName, v)
            /\ \E i \in DOMAIN db :
                  /\ db[i].url = mreq[s].cacheKey
                  /\ db[i].data = mreq[s].response.body
                  /\ db[i].created >= mreq[s].lookupAt
                  /\ db[i].expires = db[i].created + RouteTtl(route)

\* the text t occurs in the text h when letter case is ignored
FoldIncludes(h, t) ==
    \E i \in 0..(Len(h) - Len(t)) :
        \A j \in 1..Len(t) : ToLowerChar(h[i + j]) = ToLowerChar(t[j])

SearchMatches(member, text) ==
    \/ FoldIncludes(member.name.chars, text)
    \/ /\ member.constituency # JNull
       /\ FoldIncludes(member.constituency.chars, text)

\* C15 as stated, for requests with a non-empty search text: the list route
\* never reads the store and never saves, always fetches once, and, the
\* upstream answering with the page, returns exactly the members whose name or
\* constituency contains the text, case ignored.
C15_SearchBypassesStore ==
    \A s \in Slots :
        ( /\ StoreDone(s, "list")
          /\ ~NoSearch(mreq[s].search) ) =>
            /\ mreq[s].calls = [finds |-> 0, fetches |-> 1, saves |-> 0]
            /\ mreq[s].upAnswer = "ok" =>
                  /\ mreq[s].response.status = 200
                  /\ \E v \in 0..MaxVersion :
                        mreq[s].response.body.objects =
                            SelectSeq(MembersPage(v).objects,
                                      LAMBDA member :
                                          SearchMatches(member, mreq[s].search.chars))

\* C17: a response built from the store comes from a record of the key whose
\* expiry is strictly after the lookup time; when the store holds no such
\* record, expired ones included, the lookup is a miss, the upstream is
\* fetched, and a completed save leaves a new record in the store.
C17_NoExpiredServed ==
    \A s \in Slots :
        mreq[s].findOutcome = "ok" =>
            /\ mreq[s].found # JNull =>
                  /\ mreq[s].found.url = mreq[s].cacheKey
                  /\ mreq[s].found.expires > mreq[s].lookupAt
                  /\ mreq[s].pc = "done" =>
                        mreq[s].response = [status |-> 200, body |-> mreq[s].found.data]
            /\ ~mreq[s].sawFresh =>
                  /\ mreq[s].found = JNull
                  /\ mreq[s].calls.fetches = 1
                  /\ mreq[s].saveOutcome = "ok" =>
                        /\ db # <<>>
                        /\ db[Len(db)] = mreq[s].saving
                        /\ mreq[s].saving.created >= mreq[s].lookupAt

\* a votes or member request found only an expired record under its key,
\* fetched, and saved a second record
C17_Witness ==
    \E s \in Slots :
        /\ mreq[s].pc = "done"
        /\ mreq[s].route \in {"member", "votes"}
        /\ mreq[s].sawStale
        /\ ~mreq[s].sawFresh
        /\ mreq[s].saveOutcome = "ok"
        /\ Len(db) >= 2

\* the route a key of the store belongs to
KeyRoute(key) ==
    IF key = MembersKey THEN "list"
    ELSE IF \E m \in Members : key = StoreKey("member", m) THEN "member"
    ELSE "votes"

----------------------------------------------------------------------------
(* Concurrent runs of real-votes; the merge *)

\* the item the run in slot record r owes for ballot position k, given what
\* its own fetch for that position did
OwnItemOk(r, k) ==
    LET item == r.response.body.objects[k]
        b == ListOf(r)[k]
        outcome == IF k <= Len(r.outcomes) THEN r.outcomes[k] ELSE "beyond"
    IN /\ item.raw_ballot = b
       /\ Has(item, "error") <=>
             \/ outcome = "fail"
             \/ outcome = "ok" /\ VoteDetailFor(VoteNumber(k - 1)).description = JNull
       /\ Has(item, "raw_vote") <=>
             outcome = "ok" /\ VoteDetailFor(VoteNumber(k - 1)).description # JNull

\* the run in slot s went through the pipeline and answered
RanAndAnswered(s) ==
    /\ req[s].pc = "done"
    /\ req[s].route = "real-votes"
    /\ req[s].calls.list = 1
    /\ req[s].response.status = 200

\* C19: of two real-votes requests for one member that both missed the cache
\* and ran at once, each answers with one item per ballot of its own list,
\* each item reflecting the outcome of its own fetch, and once both have
\* answered the cache holds under the key the whole body of the run that
\* wrote last.
C19_RunsIsolated ==
    /\ \A s \in Slots :
          RanAndAnswered(s) =>
              /\ Len(req[s].response.body.objects) = Len(ListOf(req[s]))
              /\ \A k \in 1..Len(ListOf(req[s])) : OwnItemOk(req[s], k)
    /\ (\A s \in Slots : RanAndAnswered(s) /\ req[s].memberName = "alice") =>
          LET entry == CacheGet(cache, RealVotesKey("alice"), now)
          IN /\ \E s \in Slots : entry = req[s].response.body
             /\ entry = hist[<<"real-votes", "alice">>].computed

\* both requests missed the cache, ran the pipeline and answered with
\* different bodies
C19_Witness ==
    /\ \A s \in Slots : RanAndAnswered(s) /\ req[s].memberName = "alice"
    /\ req[1].response.body # req[2].response.body
    /\ Len(ListOf(req[1])) >= 2

\* C20 as stated: for every ballot of real-votes whose vote fetch succeeded,
\* the item has the translated choice, bill "Bill <number>" or "Motion", and
\* the detail's result string or else "Passed"/"Failed" by the passed flag.
C20_MergeRules ==
    \A s \in Slots :
        LET r == req[s] IN
        (r.pc = "done" /\ r.route = "real-votes" /\ PipelineRan(r)
            /\ r.response.status = 200) =>
            \A k \in 1..Len(r.outcomes) :
                r.outcomes[k] = "ok" =>
                    LET item == r.response.body.objects[k]
                        choice == ListOf(r)[k].ballot
                        detail == VoteDetailFor(VoteNumber(k - 1))
                    IN /\ item.vote = ( IF choice = "Yes" THEN "Yea"
                                        ELSE IF choice = "No" THEN "Nay"
                                        ELSE choice )
                       /\ item.bill = ( IF Has(detail, "bill")
                                        THEN "Bill " \o detail.bill.number
                                        ELSE "Motion" )
                       /\ item.result = ( IF Has(detail, "result") THEN detail.result
                                          ELSE IF detail.passed THEN "Passed"
                                          ELSE "Failed" )


----------------------------------------------------------------------------
(* The votes route never answers with an error status *)

\* the body both catches of the votes route send
IsEmptyResult(body) ==
    /\ Has(body, "objects") /\ body.objects = <<>>
    /\ Has(body, "pagination") /\ body.pagination.count = 0
    /\ Has(body, "message")

\* a step of the votes request in slot s failed
VotesStepFailed(s) ==
    \/ mreq[s].findOutcome = "error"
    \/ mreq[s].fetchOutcome \in FetchFailures
    \/ mreq[s].saveOutcome = "error"

\* C22: the votes route answers 200 in every execution; when the lookup, the
\* upstream fetch or the save after a successful fetch failed, the body is
\* the empty result, and no response of the route carries an error status.
C22_VotesAlways200 ==
    \A s \in Slots :
        mreq[s].route = "votes" =>
            /\ mreq[s].response.status \in {0, 200}
            /\ mreq[s].pc = "done" =>
                  /\ mreq[s].response.status = 200
                  /\ VotesStepFailed(s) => IsEmptyResult(mreq[s].response.body)

\* a votes request whose upstream fetch succeeded and whose save failed has
\* been answered
C22_Witness ==
    \E s \in Slots :
        /\ StoreDone(s, "votes")
        /\ mreq[s].fetchOutcome = "ok"
        /\ mreq[s].saveOutcome = "error"
        /\ mreq[s].response.status = 200


----------------------------------------------------------------------------
(* Every request is answered, once *)

\* the request in slot s is being handled by one of the three routes
Handling(s) == req[s].pc # "idle" \/ mreq[s].pc # "idle"

\* the request in slot s has its response
Answered(s) ==
    \/ req[s].pc = "done" /\ req[s].sent = 1
    \/ mreq[s].pc = "done" /\ mreq[s].sent = 1

\* C21: with every await eventually returning or failing, every real-votes,
\* ballots and votes request is eventually answered, and no request ever has
\* more than one response sent: a request has its one response exactly when
\* its handler is through.
C21_OneResponse ==
    /\ [](\A s \in Slots :
             /\ req[s].sent = (IF req[s].pc = "done" THEN 1 ELSE 0)
             /\ mreq[s].sent = (IF mreq[s].pc = "done" THEN 1 ELSE 0))
    /\ \A s \in Slots : Handling(s) ~> Answered(s)

\* a real-votes run over more ballots than the cap, with a failed vote fetch,
\* has been answered once
C21_Witness ==
    \E s \in Slots :
        /\ req[s].pc = "done"
        /\ req[s].route = "real-votes"
        /\ req[s].sent = 1
        /\ PipelineRan(req[s])
        /\ Len(ListOf(req[s])) > MaxEnrich
        /\ \E k \in DOMAIN req[s].outcomes : req[s].outcomes[k] = "fail"

====
